---------------------------- MODULE Spec2Model ----------------------------
(***************************************************************************)
(* Model of src/harvester_e2e_tests/utils.py:                              *)
(*   - poll_for_update_resource (fetch latest version, PUT, retry on 409)  *)
(*     running against a versioned store with one concurrent writer;       *)
(*   - the fleet lookups lookup_hosts_with_most_available_cpu / _memory    *)
(*     and lookup_hosts_with_cpu_and_memory.                               *)
(* Time is counted in whole seconds since the call began.  polling2.poll   *)
(* calls its target, returns on a truthy result, otherwise raises          *)
(* TimeoutException when time.time() >= start + timeout, otherwise sleeps  *)
(* `step` seconds and calls the target again.  A request takes between 0   *)
(* and MaxLatency seconds; the store acts at the moment it answers.        *)
(* hist records what happened in the run (requests issued, their answers)  *)
(* and is read by the properties only, never by the actions' guards.       *)
(***************************************************************************)
EXTENDS Integers, Sequences, FiniteSets, TLC

\* ------------------------------------------------------------- bounds
\* number of commits of the concurrent writer during one call
MaxWrites == 1
\* how many versions behind the store a GET may answer (stale read)
MaxStale == 1
\* how many times the lookup endpoint changes between answering 200 and 404
MaxFlips == 1
\* longest time, in seconds, the store takes to answer one request
MaxLatency == 0
\* most nodes in the fleet
MaxNodes == 3
\* concurrent poll_for_update_resource calls on one resource
MaxCallers == 2

\* --------------------------------------------------- program constants
\* polling2.poll(_update_resource, step=3, timeout=120)
UpdateStep == 3
UpdateTimeout == 120
\* polling2.poll(..., step=5, timeout=60) in poll_for_resource_ready
ReadyStep == 5
ReadyTimeout == 60
\* time.sleep(120) of assert_vm_restarted, time.sleep(30) of create_image
RestartGrace == 120
ImageGrace == 30
\* step=5 of the polls of assert_vm_restarted, delete_image, create_image
WaitStep == 5
\* int(metrics_json['usage']['cpu'][:-1]) / 1000000000
NanoPerCore == 1000000000

VARIABLES
  now,            \* seconds since poll_for_update_resource was called
  pc,             \* position of the call: ready | lookup | put | done | failed
  readyDeadline,  \* max_time of the running poll_for_resource_ready
  request_json,   \* the caller's body; only resourceVersion is rewritten
  resp,           \* the nonlocal resp: <<>> is None, else <<response>>
  returned,       \* what the call returned to its caller: <<>> is nothing
  failure,        \* which exception ended the call ("" while none)
  store,          \* the stored resource: resourceVersion, x, y
  lookupCode,     \* status the lookup endpoint answers a GET with
  writes,         \* commits of the concurrent writer so far
  flips,          \* changes of lookupCode so far
  hist,           \* observations of the run, read by the properties only
  fleet,          \* the store's nodes: name, allocatable and usage strings
  fn,             \* which lookup runs: cpu | memory | cpu_and_memory
  want,           \* the cpu and memory arguments of lookup_hosts_with_cpu_and_memory
  rpc,            \* position of the lookup: list | loop | returned | raised
  nodes_json,     \* resp.json()['data'] of the node listing
  idx,            \* the node the for loop visits next
  acc,            \* most_available_*_nodes (<<>> is None) and most_available_*
  nodes,          \* the list lookup_hosts_with_cpu_and_memory builds
  computed,       \* the loop's locals, one record per node visited
  result,         \* what the lookup returned: <<>> is nothing yet
  raised,         \* the exception that ended the lookup ("" while none)
  fleetLog,       \* every node record the store held since the lookup began
  changes,        \* changes of the store's nodes during the lookup
  wop,            \* the wait that runs: delete_image | create_image |
                  \* assert_vm_restarted
  wpc,            \* its position: call | poll | returned | raised
  wnow,           \* seconds since it was called
  wdeadline,      \* max_time of its polling2.poll
  wait_timeout,   \* the --wait-timeout option, or the wait_timeout argument
  image_json,     \* create_image's nonlocal image_json
  wret,           \* what it returned: <<>> is None
  werr,           \* the exception that ended it: <<>> is none
  whist,          \* observations of the wait, read by the properties only
  mstore,         \* the document several concurrent calls update
  cpc,            \* each concurrent call's position: read | put | done |
                  \* failed
  cbody,          \* each concurrent call's request_json
  mwrites,        \* commits by clients other than the calls
  chist           \* observations per call, read by the properties only

updVars == <<now, pc, readyDeadline, request_json, resp, returned, failure,
             store, lookupCode, writes, flips, hist>>

rankVars == <<fleet, fn, want, rpc, nodes_json, idx, acc, nodes, computed,
              result, raised>>

churnVars == <<fleetLog, changes>>

\* what the update call leaves alone, and what the fleet lookups leave alone
waitVars == <<wop, wpc, wnow, wdeadline, wait_timeout, image_json, wret,
              werr, whist>>

multiVars == <<mstore, cpc, cbody, mwrites, chist>>

nonUpdVars == <<rankVars, churnVars, waitVars, multiVars>>
nonRankVars == <<updVars, churnVars, waitVars, multiVars>>
nonWaitVars == <<updVars, rankVars, churnVars, multiVars>>
nonMultiVars == <<updVars, rankVars, churnVars, waitVars>>

vars == <<updVars, rankVars, churnVars, waitVars, multiVars>>

\* ------------------------------------------------------------ the store
\* The versions a GET may answer with: the current one, or one at most
\* MaxStale behind it (never older than the first version, 1).
ReadableVersions(doc) ==
  {v \in 1..doc.resourceVersion : doc.resourceVersion - v <= MaxStale}

\* The store's answer to a conditional PUT that passed validation:
\* 200 when the expected version is the stored one, 409 otherwise.
VersionCheck(doc, body) ==
  IF body.resourceVersion = doc.resourceVersion THEN 200 ELSE 409

\* An accepted PUT replaces the document by the body sent and the store
\* assigns the next version.
Commit(doc, body) ==
  [body EXCEPT !.resourceVersion = doc.resourceVersion + 1]

\* ------------------------------------------------------ polling2.poll
\* (variant: the deadline is never acted on, as with poll_forever)
Expired_never(t, max_time) == FALSE

\* (variant: the deadline counts as passed at once)
Expired_early(t, max_time) == TRUE

\* polling2 raises TimeoutException after a falsy result once
\* time.time() >= max_time.
Expired(t, max_time) == t >= max_time

\* -------------------------------------------- poll_for_update_resource
\* (variant: the document of the store is sent with the version read)
FillVersion_fromStore(body, version) ==
  [store EXCEPT !.resourceVersion = version]

\* (variant: the version read is not written into the body)
FillVersion_keep(body, version) == body

\* request_json['metadata']['resourceVersion'] = get_latest_resource_version()
FillVersion(body, version) == [body EXCEPT !.resourceVersion = version]

\* (variant: a conflict fails the call like any other error status)
UpdateResult_conflictAborts(status) ==
  IF status = 200 THEN "ok" ELSE "abort"

\* (variant: a conflict counts as an update)
UpdateResult_conflictOk(status) ==
  IF status \in {200, 409} THEN "ok" ELSE "abort"

\* (variant: every status but 200 is retried)
UpdateResult_retryAll(status) ==
  IF status = 200 THEN "ok" ELSE "retry"

\* What _update_resource makes of the PUT's status:
\* 409 -> False (retry), 200 -> True, anything else -> AssertionError.
UpdateResult(status) ==
  IF status = 409 THEN "retry"
  ELSE IF status = 200 THEN "ok" ELSE "abort"

Terminal == pc \in {"done", "failed"}

Running == pc \in {"ready", "lookup", "put"}

\* poll_for_resource_ready: one call of the lambda, polling2's time check
\* and its sleep of `step` seconds.
ReadyGet ==
  /\ pc = "ready"
  /\ \E v \in ReadableVersions(store), d \in 0..MaxLatency :
       LET ok == lookupCode = 200
           t == now + d IN
       /\ hist' = [hist EXCEPT !.lastReq = "GET",
                               !.lateReq = @ \/ now > UpdateTimeout,
                               !.lastGet = IF ok
                                           THEN <<[attempt |-> hist.nPuts + 1,
                                                   version |-> v]>>
                                           ELSE @]
       /\ IF ok
          THEN /\ pc' = "lookup"
               /\ now' = t
               /\ UNCHANGED failure
          ELSE IF Expired(t, readyDeadline)
          THEN /\ pc' = "failed"
               /\ failure' = "ready_timeout"
               /\ now' = t
          ELSE /\ now' = t + ReadyStep
               /\ UNCHANGED <<pc, failure>>
  /\ UNCHANGED <<readyDeadline, request_json, resp, returned, store,
                 lookupCode, writes, flips>>
  /\ UNCHANGED nonUpdVars

\* get_latest_resource_version after the readiness poll: the second GET,
\* its assert, and the assignment into request_json.
LookupGet ==
  /\ pc = "lookup"
  /\ \E v \in ReadableVersions(store), d \in 0..MaxLatency :
       LET ok == lookupCode = 200 IN
       /\ now' = now + d
       /\ hist' = [hist EXCEPT !.lastReq = "GET",
                               !.lateReq = @ \/ now > UpdateTimeout,
                               !.nReads = IF ok THEN @ + 1 ELSE @,
                               !.readOk = ok,
                               !.lastGet = IF ok
                                           THEN <<[attempt |-> hist.nPuts + 1,
                                                   version |-> v]>>
                                           ELSE @]
       /\ IF ok
          THEN /\ request_json' = FillVersion(request_json, v)
               /\ pc' = "put"
               /\ UNCHANGED failure
          ELSE /\ pc' = "failed"
               /\ failure' = "lookup_assert"
               /\ UNCHANGED request_json
  /\ UNCHANGED <<readyDeadline, resp, returned, store, lookupCode,
                 writes, flips>>
  /\ UNCHANGED nonUpdVars

\* The PUT of _update_resource, what _update_resource returns and what
\* polling2.poll and the caller's tail (assert updated; return resp) do.
Put ==
  /\ pc = "put"
  /\ \E status \in {VersionCheck(store, request_json), 500},
        d \in 0..MaxLatency :
       LET outcome == UpdateResult(status)
           t == now + d IN
       /\ store' = IF status = 200 THEN Commit(store, request_json)
                   ELSE store
       /\ resp' = <<[status_code |-> status,
                     json |-> IF status = 200 THEN <<store'>> ELSE <<>>]>>
       /\ hist' = [hist EXCEPT !.lastReq = "PUT",
                               !.lateReq = @ \/ now > UpdateTimeout,
                               !.nPuts = @ + 1,
                               !.n409 = IF status = 409 THEN @ + 1 ELSE @,
                               !.readOk = FALSE,
                               !.putAfterRead = @ /\ hist.readOk,
                               !.lastPut = <<[attempt |-> hist.nPuts + 1,
                                              sent |-> request_json,
                                              read |-> hist.lastGet,
                                              response |-> resp'[1]]>>]
       /\ IF outcome = "ok"
          THEN /\ pc' = "done"
               /\ returned' = resp'
               /\ now' = t
               /\ UNCHANGED <<readyDeadline, failure>>
          ELSE IF outcome = "abort"
          THEN /\ pc' = "failed"
               /\ failure' = "update_assert"
               /\ now' = t
               /\ UNCHANGED <<readyDeadline, returned>>
          ELSE IF Expired(t, UpdateTimeout)
          THEN /\ pc' = "failed"
               /\ failure' = "update_timeout"
               /\ now' = t
               /\ UNCHANGED <<readyDeadline, returned>>
          ELSE /\ now' = t + UpdateStep
               /\ readyDeadline' = now' + ReadyTimeout
               /\ pc' = "ready"
               /\ UNCHANGED <<failure, returned>>
  /\ UNCHANGED <<request_json, lookupCode, writes, flips>>
  /\ UNCHANGED nonUpdVars

\* ------------------------------------------------------ the environment
\* Another client commits a change of field y while the call is running.
WriterCommit ==
  /\ Running
  /\ writes < MaxWrites
  /\ writes' = writes + 1
  /\ store' = Commit(store, [store EXCEPT !.y = "w"])
  /\ hist' = [hist EXCEPT !.writerY = <<"w">>]
  /\ UNCHANGED <<now, pc, readyDeadline, request_json, resp, returned,
                 failure, lookupCode, flips>>
  /\ UNCHANGED nonUpdVars

\* The lookup endpoint starts or stops answering 200.
LookupFlip ==
  /\ Running
  /\ flips < MaxFlips
  /\ flips' = flips + 1
  /\ lookupCode' = IF lookupCode = 200 THEN 404 ELSE 200
  /\ UNCHANGED <<now, pc, readyDeadline, request_json, resp, returned,
                 failure, store, writes, hist>>
  /\ UNCHANGED nonUpdVars

\* ------------------------------------------------------ fleet lookups
\* Field values are strings, modelled as sequences of characters.
DigitValue ==
  [c \in {"0", "1", "2", "3", "4", "5", "6", "7", "8", "9"} |->
     CASE c = "0" -> 0 [] c = "1" -> 1 [] c = "2" -> 2 [] c = "3" -> 3
       [] c = "4" -> 4 [] c = "5" -> 5 [] c = "6" -> 6 [] c = "7" -> 7
       [] c = "8" -> 8 [] c = "9" -> 9]

\* int(s) of a string of decimal digits
RECURSIVE ParseInt(_)
ParseInt(s) ==
  IF s = <<>> THEN 0
  ELSE ParseInt(SubSeq(s, 1, Len(s) - 1)) * 10 + DigitValue[s[Len(s)]]

\* s[:-n]
DropLast(s, n) == SubSeq(s, 1, Len(s) - n)

\* math.floor(a / b) and math.ceil(a / b) for integers a and b > 0
FloorDiv(a, b) == a \div b
CeilDiv(a, b) == -((-a) \div b)

\* The factor 1.024e-06 as a fraction: 1024 / 10^9 = 2 / 1953125.  The
\* amounts used below are ones whose product with the double 1.024e-06 has
\* the floor and the ceiling of the exact product.
KiToGb == [num |-> 2, den |-> 1953125]

\* (variant: usage is rounded down)
CpuUsage_floor(text) == FloorDiv(ParseInt(DropLast(text, 1)), NanoPerCore)

\* cpu_usage = math.ceil(int(metrics_json['usage']['cpu'][:-1]) / 1000000000)
CpuUsage(text) == CeilDiv(ParseInt(DropLast(text, 1)), NanoPerCore)

\* memory_usage = math.ceil(int(metrics_json['usage']['memory'][:-2]) * 1.024e-06)
MemoryUsage(text) ==
  CeilDiv(ParseInt(DropLast(text, 2)) * KiToGb.num, KiToGb.den)

\* (variant: Ki are converted to GiB, 1048576 Ki each)
AllocatableMemory_GiB(text) ==
  FloorDiv(ParseInt(DropLast(text, 2)), 1024 * 1024)

\* allocatable_memory = math.floor(int(node[...]['memory'][:-2]) * 1.024e-06)
AllocatableMemory(text) ==
  FloorDiv(ParseInt(DropLast(text, 2)) * KiToGb.num, KiToGb.den)

\* available_cpu = int(node['status']['allocatable']['cpu']) - cpu_usage
AvailableCpu(node, metrics) == ParseInt(node.cpu) - CpuUsage(metrics.cpu)

\* available_memory = allocatable_memory - memory_usage
AvailableMemory(node, metrics) ==
  AllocatableMemory(node.memory) - MemoryUsage(metrics.memory)

\* The if/elif of the most-available loops; most_available_*_nodes is None
\* (<<>>) until a node beats most_available_*, and None.append raises
\* AttributeError.
MostAvailable(a, name, available) ==
  IF available > a.most
  THEN [nodes |-> <<<<name>>>>, most |-> available, error |-> ""]
  ELSE IF available = a.most
  THEN IF a.nodes = <<>>
       THEN [nodes |-> a.nodes, most |-> a.most, error |-> "AttributeError"]
       ELSE [nodes |-> <<Append(a.nodes[1], name)>>, most |-> a.most,
             error |-> ""]
  ELSE [nodes |-> a.nodes, most |-> a.most, error |-> ""]

\* (variant: a node meeting either requirement is taken)
Satisfies_either(available_cpu, available_memory, cpu, memory) ==
  available_cpu >= cpu \/ available_memory >= memory

\* if available_cpu >= cpu and available_memory >= memory
Satisfies(available_cpu, available_memory, cpu, memory) ==
  available_cpu >= cpu /\ available_memory >= memory

\* the store's metrics of the node called name
MetricsOf(name) ==
  LET n == CHOOSE m \in {fleet[i] : i \in 1..Len(fleet)} : m.name = name
  IN [cpu |-> n.usage_cpu, memory |-> n.usage_memory]

\* GET list_nodes, its assert, and the initialisation before the loop
ListNodes ==
  /\ rpc = "list"
  /\ \E status \in {200, 500} :
       IF status = 200
       THEN /\ nodes_json' = [i \in 1..Len(fleet) |->
                                [name |-> fleet[i].name, cpu |-> fleet[i].cpu,
                                 memory |-> fleet[i].memory]]
            /\ rpc' = "loop"
            /\ UNCHANGED raised
       ELSE /\ rpc' = "raised"
            /\ raised' = "AssertionError"
            /\ UNCHANGED nodes_json
  /\ idx' = 1
  /\ acc' = [nodes |-> <<>>, most |-> 0]
  /\ nodes' = <<>>
  /\ UNCHANGED <<fleet, fn, want, computed, result>>
  /\ UNCHANGED nonRankVars

\* One pass of the for loop: GET get_node_metrics, its assert, the unit
\* conversions and the comparison of the lookup that runs.
VisitNode ==
  /\ rpc = "loop"
  /\ idx <= Len(nodes_json)
  /\ \E status \in {200, 500} :
       LET node == nodes_json[idx]
           metrics == MetricsOf(node.name)
           available_cpu == AvailableCpu(node, metrics)
           available_memory == AvailableMemory(node, metrics)
           available == IF fn = "cpu" THEN available_cpu
                        ELSE available_memory
           step == MostAvailable(acc, node.name, available)
       IN
       IF status # 200
       THEN /\ rpc' = "raised"
            /\ raised' = "AssertionError"
            /\ UNCHANGED <<idx, acc, nodes, computed>>
       ELSE /\ computed' = Append(computed,
                 [name |-> node.name,
                  allocatable |-> node,
                  usage |-> metrics,
                  cpu_usage |-> IF fn = "memory" THEN <<>>
                                ELSE <<CpuUsage(metrics.cpu)>>,
                  available_cpu |-> IF fn = "memory" THEN <<>>
                                    ELSE <<available_cpu>>,
                  memory_usage |-> IF fn = "cpu" THEN <<>>
                                   ELSE <<MemoryUsage(metrics.memory)>>,
                  allocatable_memory |-> IF fn = "cpu" THEN <<>>
                                         ELSE <<AllocatableMemory(node.memory)>>,
                  available_memory |-> IF fn = "cpu" THEN <<>>
                                       ELSE <<available_memory>>])
            /\ IF fn = "cpu_and_memory"
               THEN /\ nodes' = IF Satisfies(available_cpu, available_memory,
                                             want.cpu, want.memory)
                                THEN Append(nodes, node.name) ELSE nodes
                    /\ idx' = idx + 1
                    /\ UNCHANGED <<acc, rpc, raised>>
               ELSE /\ acc' = [nodes |-> step.nodes, most |-> step.most]
                    /\ IF step.error = ""
                       THEN /\ idx' = idx + 1
                            /\ UNCHANGED <<rpc, raised>>
                       ELSE /\ rpc' = "raised"
                            /\ raised' = step.error
                            /\ UNCHANGED idx
                    /\ UNCHANGED nodes
  /\ UNCHANGED <<fleet, fn, want, nodes_json, result>>
  /\ UNCHANGED nonRankVars

\* the return statement after the loop
ReturnHosts ==
  /\ rpc = "loop"
  /\ idx > Len(nodes_json)
  /\ rpc' = "returned"
  /\ result' = IF fn = "cpu_and_memory" THEN <<nodes>>
               ELSE <<[hosts |-> acc.nodes, most |-> acc.most]>>
  /\ UNCHANGED <<fleet, fn, want, nodes_json, idx, acc, nodes, computed,
                 raised>>
  /\ UNCHANGED nonRankVars

\* the state of the update call; `at` is where the call stands and `codes`
\* what the lookup endpoint may answer at first
UpdateInit(at, codes) ==
  /\ now = 0
  /\ pc = at
  /\ readyDeadline = ReadyTimeout
  /\ store = [resourceVersion |-> 1, x |-> "x0", y |-> "y0"]
  \* the caller read the resource at version 1 and changed x
  /\ request_json = [resourceVersion |-> 1, x |-> "x1", y |-> "y0"]
  /\ resp = <<>>
  /\ returned = <<>>
  /\ failure = ""
  /\ lookupCode \in codes
  /\ writes = 0
  /\ flips = 0
  /\ hist = [lastReq |-> "", lateReq |-> FALSE, nReads |-> 0, nPuts |-> 0,
             n409 |-> 0, readOk |-> FALSE, putAfterRead |-> TRUE,
             lastGet |-> <<>>, lastPut |-> <<>>, writerY |-> <<>>]

\* the state of a fleet lookup over fleet f; `at` is where it stands
RankInit(at, f, which, args) ==
  /\ fleet = f
  /\ fn = which
  /\ want = args
  /\ rpc = at
  /\ nodes_json = <<>>
  /\ idx = 1
  /\ acc = [nodes |-> <<>>, most |-> 0]
  /\ nodes = <<>>
  /\ computed = <<>>
  /\ result = <<>>
  /\ raised = ""

\* the nodes of the store do not change, or have not changed yet
ChurnInit(log) ==
  /\ fleetLog = log
  /\ changes = 0

\* the resource the waits are about, and the uid the VM had before restart
ResourceName == "r1"
PreviousUid == "u1"

\* the document a POST of create_image answers with: no status block yet
CreatedImage == [name |-> ResourceName, uid |-> "u1", status |-> <<>>]

\* the state of a wait `op` called with timeout `t`; `at` is where it stands
WaitInit(at, op, t) ==
  /\ wop = op
  /\ wpc = at
  /\ wnow = 0
  /\ wdeadline = 0
  /\ wait_timeout = t
  /\ image_json = <<>>
  /\ wret = <<>>
  /\ werr = <<>>
  /\ whist = [nGets |-> 0, sleeps |-> 0, pollStart |-> 0, started |-> <<>>,
              firstObs |-> <<>>, lastObs |-> <<>>]

\* the concurrent calls
Callers == 1..MaxCallers

\* Each call c was handed a request_json that changes x to its own value;
\* `at` is where the calls stand.
MultiInit(at) ==
  /\ mstore = [resourceVersion |-> 1, x |-> 0, y |-> "y0"]
  /\ cpc = [c \in Callers |-> at]
  /\ cbody = [c \in Callers |-> [resourceVersion |-> 1, x |-> c, y |-> "y0"]]
  /\ mwrites = 0
  /\ chist = [c \in Callers |-> [fresh |-> FALSE, overtaken |-> FALSE,
                                  conflicted |-> FALSE, put |-> <<>>]]

\* poll_for_update_resource is called; no fleet lookup and no wait runs
Init ==
  /\ UpdateInit("ready", {200, 404})
  /\ RankInit("idle", <<>>, "cpu", [cpu |-> 0, memory |-> 0])
  /\ ChurnInit({})
  /\ WaitInit("idle", "delete_image", 0)
  /\ MultiInit("idle")

Next ==
  \/ ReadyGet
  \/ LookupGet
  \/ Put
  \/ WriterCommit
  \/ LookupFlip

Spec == Init /\ [][Next]_vars

\* ---------------------------------------------- the fleets looked up
NodeNames == <<"n1", "n2", "n3", "n4", "n5">>

\* Node profiles: allocatable cpu and memory, usage cpu and memory.
\*   1: 8 cores, 10 GiB; 2 cores and 1 GiB used
\*   2: 4 cores, 10 GiB; idle
\*   3: 1 core, 2 GB; 1 core and 2 GB used (nothing left)
\*   4: 1 core, just under 1 GB; over 1 core and 1 GiB used (overcommitted)
\*   5: 8 cores, 4 GiB; half a core and just under 1 GB used
\*   6: 2 cores, 10.9 GiB; one nanocore used
Profiles ==
  << [cpu |-> <<"8">>,
      memory |-> <<"1","0","4","8","5","7","6","0","K","i">>,
      usage_cpu |-> <<"2","0","0","0","0","0","0","0","0","0","n">>,
      usage_memory |-> <<"1","0","4","8","5","7","6","K","i">>],
     [cpu |-> <<"4">>,
      memory |-> <<"1","0","4","8","5","7","6","0","K","i">>,
      usage_cpu |-> <<"0","n">>,
      usage_memory |-> <<"0","K","i">>],
     [cpu |-> <<"1">>,
      memory |-> <<"1","9","5","3","1","2","5","K","i">>,
      usage_cpu |-> <<"1","0","0","0","0","0","0","0","0","0","n">>,
      usage_memory |-> <<"1","9","5","3","1","2","5","K","i">>],
     [cpu |-> <<"1">>,
      memory |-> <<"9","7","6","5","6","2","K","i">>,
      usage_cpu |-> <<"1","0","0","0","0","0","0","0","0","1","n">>,
      usage_memory |-> <<"1","0","4","8","5","7","6","K","i">>],
     [cpu |-> <<"8">>,
      memory |-> <<"4","1","9","4","3","0","4","K","i">>,
      usage_cpu |-> <<"5","0","0","0","0","0","0","0","0","n">>,
      usage_memory |-> <<"9","7","6","5","6","2","K","i">>],
     [cpu |-> <<"2">>,
      memory |-> <<"1","1","4","2","9","4","7","8","K","i">>,
      usage_cpu |-> <<"1","n">>,
      usage_memory |-> <<"0","K","i">>] >>

\* the fleets of n nodes: node i is called NodeNames[i]
FleetsOf(n) ==
  { [i \in 1..n |-> [name |-> NodeNames[i],
                     cpu |-> Profiles[p[i]].cpu,
                     memory |-> Profiles[p[i]].memory,
                     usage_cpu |-> Profiles[p[i]].usage_cpu,
                     usage_memory |-> Profiles[p[i]].usage_memory]] :
      p \in [1..n -> 1..Len(Profiles)] }

Fleets == UNION {FleetsOf(n) : n \in 0..MaxNodes}

\* the (cpu, memory) requirements asked for
Requirements == {[cpu |-> c, memory |-> m] : c \in {0, 4}, m \in {0, 4}}

\* one of the three lookups is called on some fleet; no update call runs
RankingInit ==
  /\ UpdateInit("idle", {200})
  /\ \E f \in Fleets, which \in {"cpu", "memory", "cpu_and_memory"},
        args \in Requirements :
       /\ which # "cpu_and_memory" => args = [cpu |-> 0, memory |-> 0]
       /\ RankInit("list", f, which, args)
  /\ ChurnInit({})
  /\ WaitInit("idle", "delete_image", 0)
  /\ MultiInit("idle")

RankNext ==
  \/ ListNodes
  \/ VisitNode
  \/ ReturnHosts

RankSpec == RankingInit /\ [][RankNext]_vars

\* ------------------------------- fleet lookups over a changing fleet
\* most nodes of a fleet that changes during the lookup
MaxChurnNodes == 2
\* most changes of the store's nodes during one lookup
MaxChanges == 1

\* The store replaces allocatable and usage of node i together (the node
\* is resized and its load moves) while a lookup is running.
NodeChange ==
  /\ rpc \in {"list", "loop"}
  /\ changes < MaxChanges
  /\ \E i \in 1..Len(fleet), p \in 1..Len(Profiles) :
       LET node == [name |-> fleet[i].name,
                    cpu |-> Profiles[p].cpu,
                    memory |-> Profiles[p].memory,
                    usage_cpu |-> Profiles[p].usage_cpu,
                    usage_memory |-> Profiles[p].usage_memory]
       IN /\ node # fleet[i]
          /\ fleet' = [fleet EXCEPT ![i] = node]
          /\ fleetLog' = fleetLog \cup {node}
  /\ changes' = changes + 1
  /\ UNCHANGED <<fn, want, rpc, nodes_json, idx, acc, nodes, computed,
                 result, raised>>
  /\ UNCHANGED <<updVars, waitVars, multiVars>>

\* one of the three lookups is called on a fleet that may change
ChurnRankingInit ==
  /\ UpdateInit("idle", {200})
  /\ \E n \in 1..MaxChurnNodes :
       \E f \in FleetsOf(n), which \in {"cpu", "memory", "cpu_and_memory"} :
         /\ RankInit("list", f, which, [cpu |-> 4, memory |-> 4])
         /\ ChurnInit({f[i] : i \in 1..n})
  /\ WaitInit("idle", "delete_image", 0)
  /\ MultiInit("idle")

ChurnNext ==
  \/ ListNodes
  \/ VisitNode
  \/ ReturnHosts
  \/ NodeChange

ChurnSpec == ChurnRankingInit /\ [][ChurnNext]_vars

\* ------------------- assert_vm_restarted, delete_image, create_image
\* The documents a GET of the resource may answer with: a uid and a status
\* block that is absent (<<>>) or holds phase and storageClassName, each
\* absent or present.
StatusBlocks ==
  {<<>>} \cup
  {<<[phase |-> p, storageClassName |-> c]>> :
     p \in {<<>>, <<"Pending">>, <<"Running">>}, c \in {<<>>, <<"sc">>}}

Documents ==
  {[name |-> ResourceName, uid |-> u, status |-> st] :
     u \in {"u1", "u2"}, st \in StatusBlocks}

\* what the store may answer a GET of the resource with
Observations ==
  {[status_code |-> 200, json |-> <<doc>>] : doc \in Documents} \cup
  {[status_code |-> c, json |-> <<>>] : c \in {404, 500}}

\* the timeouts the waits are called with
WaitTimeouts == {10, 12}

\* (variant: every answer but 200 counts as deleted)
IsDeleted_not200(o) == o.status_code # 200

\* _wait_for_image_to_be_deleted: if resp.status_code == 404: return True
IsDeleted(o) == o.status_code = 404

\* (variant: the uid is not compared)
IsRestarted_anyUid(o, previous_uid) ==
  /\ o.status_code = 200
  /\ o.json[1].status # <<>>
  /\ o.json[1].status[1].phase = <<"Running">>

\* _check_vm_instance_restarted: 200, 'status' and 'phase' in the document,
\* phase == 'Running' and metadata.uid != previous_uid
IsRestarted(o, previous_uid) ==
  /\ o.status_code = 200
  /\ o.json[1].status # <<>>
  /\ o.json[1].status[1].phase # <<>>
  /\ o.json[1].status[1].phase = <<"Running">>
  /\ o.json[1].uid # previous_uid

\* (variant: a status block is enough)
IsActive_anyStatus(doc) == doc.status # <<>>

\* _wait_for_image_become_active:
\* 'status' in image_json and 'storageClassName' in image_json['status']
IsActive(doc) ==
  /\ doc.status # <<>>
  /\ doc.status[1].storageClassName # <<>>

\* polling2's TimeoutException(values, last): it holds the target's return
\* values (False), neither the resource's name nor a response
TimeoutException == [type |-> "TimeoutException", identity |-> <<>>,
                     observed |-> <<>>]

\* an assert whose message formats the resource name and resp.content
AssertionError(name, response) ==
  [type |-> "AssertionError", identity |-> <<name>>, observed |-> <<response>>]

\* polling2.poll after one call of the target answered o: return on a
\* truthy result, TimeoutException once time.time() >= max_time, else sleep
PollStep(o, truthy, t) ==
  /\ whist' = [whist EXCEPT !.nGets = @ + 1,
                            !.firstObs = IF @ = <<>> THEN <<o>> ELSE @,
                            !.lastObs = <<o>>,
                            !.sleeps = IF ~truthy /\ ~Expired(t, wdeadline)
                                       THEN @ + 1 ELSE @]
  /\ IF truthy
     THEN /\ wpc' = "returned"
          /\ wnow' = t
          /\ UNCHANGED werr
     ELSE IF Expired(t, wdeadline)
     THEN /\ wpc' = "raised"
          /\ werr' = <<TimeoutException>>
          /\ wnow' = t
     ELSE /\ wnow' = t + WaitStep
          /\ UNCHANGED <<wpc, werr>>

\* delete_image up to its poll: the DELETE and its assert
DeleteImage ==
  /\ wop = "delete_image"
  /\ wpc = "call"
  /\ \E status \in {200, 201, 500}, d \in 0..MaxLatency :
       /\ wnow' = wnow + d
       /\ whist' = [whist EXCEPT !.started = <<status>>,
                                 !.pollStart = wnow']
       /\ IF status \in {200, 201}
          THEN /\ wpc' = "poll"
               /\ wdeadline' = wnow' + wait_timeout
               /\ UNCHANGED werr
          ELSE /\ wpc' = "raised"
               /\ werr' = <<AssertionError(ResourceName,
                              [status_code |-> status, json |-> <<>>])>>
               /\ UNCHANGED wdeadline
  /\ UNCHANGED <<wop, wait_timeout, image_json, wret>>
  /\ UNCHANGED nonWaitVars

\* one call of _wait_for_image_to_be_deleted by polling2.poll
WaitDeleted ==
  /\ wop = "delete_image"
  /\ wpc = "poll"
  /\ \E o \in Observations, d \in 0..MaxLatency :
       PollStep(o, IsDeleted(o), wnow + d)
  /\ UNCHANGED <<wop, wdeadline, wait_timeout, image_json, wret>>
  /\ UNCHANGED nonWaitVars

\* create_image up to its poll: the POST, its assert, image_json =
\* resp.json() and time.sleep(30)
CreateImage ==
  /\ wop = "create_image"
  /\ wpc = "call"
  /\ \E status \in {200, 201, 500}, d \in 0..MaxLatency :
       /\ IF status \in {200, 201}
          THEN /\ wpc' = "poll"
               /\ image_json' = <<CreatedImage>>
               /\ wnow' = wnow + d + ImageGrace
               /\ wdeadline' = wnow' + wait_timeout
               /\ UNCHANGED werr
          ELSE /\ wpc' = "raised"
               /\ wnow' = wnow + d
               /\ werr' = <<AssertionError(ResourceName,
                              [status_code |-> status, json |-> <<>>])>>
               /\ UNCHANGED <<wdeadline, image_json>>
       /\ whist' = [whist EXCEPT !.started = <<status>>,
                                 !.pollStart = wnow']
  /\ UNCHANGED <<wop, wait_timeout, wret>>
  /\ UNCHANGED nonWaitVars

\* One call of _wait_for_image_become_active by polling2.poll, and the
\* return image_json that follows a truthy result.
WaitActive ==
  /\ wop = "create_image"
  /\ wpc = "poll"
  /\ \E o \in Observations, d \in 0..MaxLatency :
       IF o.status_code # 200
       THEN /\ wpc' = "raised"
            /\ werr' = <<AssertionError(image_json[1].name, o)>>
            /\ wnow' = wnow + d
            /\ whist' = [whist EXCEPT !.nGets = @ + 1,
                                      !.firstObs = IF @ = <<>> THEN <<o>>
                                                   ELSE @,
                                      !.lastObs = <<o>>]
            /\ UNCHANGED <<image_json, wret>>
       ELSE /\ image_json' = o.json
            /\ PollStep(o, IsActive(o.json[1]), wnow + d)
            /\ wret' = IF IsActive(o.json[1]) THEN image_json' ELSE wret
  /\ UNCHANGED <<wop, wdeadline, wait_timeout>>
  /\ UNCHANGED nonWaitVars

\* assert_vm_restarted up to its poll: time.sleep(120)
RestartSleep ==
  /\ wop = "assert_vm_restarted"
  /\ wpc = "call"
  /\ wnow' = wnow + RestartGrace
  /\ wdeadline' = wnow' + wait_timeout
  /\ wpc' = "poll"
  /\ whist' = [whist EXCEPT !.pollStart = wnow']
  /\ UNCHANGED <<wop, wait_timeout, image_json, wret, werr>>
  /\ UNCHANGED nonWaitVars

\* one call of _check_vm_instance_restarted by polling2.poll
WaitRestarted ==
  /\ wop = "assert_vm_restarted"
  /\ wpc = "poll"
  /\ \E o \in Observations, d \in 0..MaxLatency :
       PollStep(o, IsRestarted(o, PreviousUid), wnow + d)
  /\ UNCHANGED <<wop, wdeadline, wait_timeout, image_json, wret>>
  /\ UNCHANGED nonWaitVars

\* one of the three waits is called
WaitingInit ==
  /\ UpdateInit("idle", {200})
  /\ RankInit("idle", <<>>, "cpu", [cpu |-> 0, memory |-> 0])
  /\ ChurnInit({})
  /\ \E op \in {"delete_image", "create_image", "assert_vm_restarted"},
        t \in WaitTimeouts :
       WaitInit("call", op, t)
  /\ MultiInit("idle")

WaitNext ==
  \/ DeleteImage
  \/ WaitDeleted
  \/ CreateImage
  \/ WaitActive
  \/ RestartSleep
  \/ WaitRestarted

WaitSpec == WaitingInit /\ [][WaitNext]_vars

\* ------------------------------------------------------------ properties
\* the most PUTs that fit before polling2 gives up: one at time 0 and one
\* after each sleep that began before the deadline
MaxAttempts == UpdateTimeout \div UpdateStep + 1

\* C1: when the call succeeds after the concurrent writer committed a change
\* of field y (which the caller's mutation of x did not touch), the store
\* still holds the writer's value of y after the accepted PUT.
C1_NoLostUpdate ==
  (pc = "done" /\ hist.writerY # <<>>) => store.y = hist.writerY[1]

\* C2: every PUT carries as resourceVersion the value returned by the most
\* recent successful GET of the lookup endpoint, which was made in the same
\* attempt; and while a PUT is pending the body already holds that value.
C2_PutCarriesLastRead ==
  /\ hist.lastPut # <<>> =>
       LET p == hist.lastPut[1] IN
       /\ p.read # <<>>
       /\ p.read[1].attempt = p.attempt
       /\ p.sent.resourceVersion = p.read[1].version
  /\ pc = "put" =>
       /\ hist.lastGet # <<>>
       /\ hist.lastGet[1].attempt = hist.nPuts + 1
       /\ request_json.resourceVersion = hist.lastGet[1].version

\* a second attempt whose PUT carried a version other than the first
\* attempt's (the version was read again) and was accepted
C2_Witness ==
  /\ hist.lastPut # <<>>
  /\ hist.lastPut[1].attempt = 2
  /\ hist.lastPut[1].sent.resourceVersion = 2
  /\ hist.lastPut[1].response.status_code = 200

\* C3: when the call has returned, the store answered k PUTs with 409 and
\* the last one with 200: exactly k+1 PUTs were issued, each after a read of
\* the version of its own, the accepted PUT was the last request issued, and
\* the call returned that PUT's response.
C3_ConflictsThenSuccess ==
  pc = "done" =>
    /\ hist.nPuts = hist.n409 + 1
    /\ hist.nReads = hist.nPuts
    /\ hist.putAfterRead
    /\ hist.lastReq = "PUT"
    /\ hist.lastPut[1].response.status_code = 200
    /\ returned = <<hist.lastPut[1].response>>
    /\ returned[1].json = <<store>>

\* the call returned after three conflicts
C3_Witness == pc = "done" /\ hist.n409 = 3 /\ hist.nPuts = 4

\* C4: once a PUT was answered with a status other than 200 and 409 the
\* call has failed on the assert, that PUT is the last request issued,
\* nothing was returned; with no conflict before it, one read and one PUT
\* were made.
C4_OnlyConflictsRetried ==
  (hist.lastPut # <<>> /\ hist.lastPut[1].response.status_code \notin {200, 409}) =>
    /\ pc = "failed"
    /\ failure = "update_assert"
    /\ returned = <<>>
    /\ hist.lastReq = "PUT"
    /\ hist.n409 = 0 => (hist.nPuts = 1 /\ hist.nReads = 1)

\* a status 500 on the first PUT ended the call
C4_Witness ==
  /\ hist.lastPut # <<>>
  /\ hist.lastPut[1].response.status_code = 500
  /\ hist.nPuts = 1
  /\ pc = "failed"

\* the latest the call can end: its last attempt begins before
\* UpdateTimeout + UpdateStep, its readiness poll sleeps last before its own
\* deadline, and three requests may follow
LatestEnd ==
  UpdateTimeout + UpdateStep + ReadyTimeout + ReadyStep + 3 * MaxLatency

\* C5: the call issues at most MaxAttempts PUTs and its clock never passes
\* LatestEnd; while it runs it can always take a step; and when it ends
\* with every PUT answered 409 and no read failed, it ended with polling2's
\* timeout, not before the deadline, and returned nothing.
C5_BoundedRetry ==
  /\ hist.nPuts <= MaxAttempts
  /\ now <= LatestEnd
  /\ Running => ENABLED (ReadyGet \/ LookupGet \/ Put)
  /\ (/\ Terminal
      /\ hist.nPuts >= 1
      /\ hist.n409 = hist.nPuts
      /\ failure \notin {"ready_timeout", "lookup_assert"}) =>
       /\ pc = "failed"
       /\ failure = "update_timeout"
       /\ now >= UpdateTimeout
       /\ returned = <<>>

\* the timeout after MaxAttempts conflicts
C5_Witness ==
  /\ pc = "failed"
  /\ failure = "update_timeout"
  /\ hist.n409 = MaxAttempts

\* C6: no GET or PUT is issued after the update deadline, and no PUT is
\* issued in an attempt whose read did not return 200.
C6_NoRequestPastDeadline ==
  /\ ~hist.lateReq
  /\ hist.putAfterRead

\* ------------------------------------------- properties of the lookups
\* the amount before the unit suffix of a memory or cpu usage string
Amount(text, suffix) == ParseInt(DropLast(text, suffix))

\* what the store holds for node i of the fleet
FleetAvailableCpu(i) == AvailableCpu(fleet[i], MetricsOf(fleet[i].name))
FleetAvailableMemory(i) == AvailableMemory(fleet[i], MetricsOf(fleet[i].name))
FleetAvailable(i) ==
  IF fn = "cpu" THEN FleetAvailableCpu(i) ELSE FleetAvailableMemory(i)

\* the lookup ended without a failed request
LookupEnded == rpc \in {"returned", "raised"} /\ raised # "AssertionError"

\* C7: over a non-empty fleet the most-available lookups return exactly the
\* names of the nodes whose availability is the maximum over all nodes,
\* each once, together with that maximum, also when the maximum is zero or
\* negative; they do not fail.
C7_MostAvailable ==
  (LookupEnded /\ fn \in {"cpu", "memory"} /\ Len(fleet) >= 1) =>
    LET best == CHOOSE m \in {FleetAvailable(i) : i \in 1..Len(fleet)} :
                  \A i \in 1..Len(fleet) : FleetAvailable(i) <= m
    IN /\ rpc = "returned"
       /\ result[1].most = best
       /\ result[1].hosts # <<>>
       /\ LET hosts == result[1].hosts[1] IN
          /\ {hosts[k] : k \in 1..Len(hosts)} =
               {fleet[i].name : i \in {j \in 1..Len(fleet) :
                                         FleetAvailable(j) = best}}
          /\ \A k, l \in 1..Len(hosts) : hosts[k] = hosts[l] => k = l

\* the memory figures of the nodes visited so far
MemoryRows == {computed[i] : i \in {j \in 1..Len(computed) :
                                     computed[j].available_memory # <<>>}}
CpuRows == {computed[i] : i \in {j \in 1..Len(computed) :
                                  computed[j].available_cpu # <<>>}}

TenGiB == <<"1","0","4","8","5","7","6","0","K","i">>
OneGiB == <<"1","0","4","8","5","7","6","K","i">>
TenPointNineGiB == <<"1","1","4","2","9","4","7","8","K","i">>

\* C8 as stated: N GiB allocatable and M GiB used, both in Ki, give N - M
\* (10 GiB and 1 GiB give 9), and 10.9 GiB allocatable floors to 10.
C8_GiB ==
  \A e \in MemoryRows :
    LET a == Amount(e.allocatable.memory, 2)
        u == Amount(e.usage.memory, 2)
    IN /\ (a % (1024 * 1024) = 0 /\ u % (1024 * 1024) = 0) =>
            e.available_memory[1] = a \div (1024 * 1024) - u \div (1024 * 1024)
       /\ (e.allocatable.memory = TenGiB /\ e.usage.memory = OneGiB) =>
            e.available_memory[1] = 9
       /\ e.allocatable.memory = TenPointNineGiB => e.allocatable_memory[1] = 10

\* C8 amended: a Ki allocatable and u Ki used give
\* floor(a * 1.024e-06) - ceil(u * 1.024e-06), in gigabytes of 10^9 bytes:
\* "10485760Ki" with "1048576Ki" gives 10 - 2 = 8, and 10.9 GiB allocatable
\* ("11429478Ki", 11.70 GB) floors to 11.
C8_Gigabytes ==
  \A e \in MemoryRows :
    LET a == Amount(e.allocatable.memory, 2)
        u == Amount(e.usage.memory, 2)
        fl == e.allocatable_memory[1]
        ce == e.memory_usage[1]
    IN /\ fl * KiToGb.den <= a * KiToGb.num
       /\ a * KiToGb.num < (fl + 1) * KiToGb.den
       /\ (ce - 1) * KiToGb.den < u * KiToGb.num
       /\ u * KiToGb.num <= ce * KiToGb.den
       /\ e.available_memory[1] = fl - ce
       /\ (e.allocatable.memory = TenGiB /\ e.usage.memory = OneGiB) =>
            e.available_memory[1] = 8
       /\ e.allocatable.memory = TenPointNineGiB => fl = 11

\* the memory lookup returned after visiting the 10 GiB node with 1 GiB used
\* and the 10.9 GiB node
C8_Witness ==
  /\ rpc = "returned"
  /\ fn = "memory"
  /\ \E e \in MemoryRows :
       e.allocatable.memory = TenGiB /\ e.usage.memory = OneGiB
  /\ \E e \in MemoryRows : e.allocatable.memory = TenPointNineGiB

\* C9: the availability computed never exceeds the true headroom:
\* available_cpu <= allocatable cores - nanocores / 10^9, and
\* available_memory <= (allocatable Ki - used Ki) * 1.024e-06.
C9_Conservative ==
  /\ \A e \in CpuRows :
       (ParseInt(e.allocatable.cpu) - e.available_cpu[1]) * NanoPerCore
         >= Amount(e.usage.cpu, 1)
  /\ \A e \in MemoryRows :
       e.available_memory[1] * KiToGb.den
         <= (Amount(e.allocatable.memory, 2) - Amount(e.usage.memory, 2))
              * KiToGb.num

\* a node whose cpu usage is rounded up by almost a whole core and whose
\* memory figures are both rounded, in a lookup that returned
C9_Witness ==
  /\ rpc = "returned"
  /\ \E e \in CpuRows \cap MemoryRows :
       /\ Amount(e.usage.cpu, 1) % NanoPerCore = 1
       /\ e.cpu_usage[1] = 2
       /\ e.available_memory[1] * KiToGb.den
            < (Amount(e.allocatable.memory, 2) - Amount(e.usage.memory, 2))
                * KiToGb.num

\* node i of the fleet meets both requirements
MeetsBoth(i) ==
  FleetAvailableCpu(i) >= want.cpu /\ FleetAvailableMemory(i) >= want.memory

\* the place of a name in the listing
PlaceOf(name) == CHOOSE i \in 1..Len(fleet) : fleet[i].name = name

\* C10: lookup_hosts_with_cpu_and_memory does not fail and returns exactly
\* the nodes whose available cpu and available memory both meet the
\* requirements, in listing order, each once; none of them has a negative
\* availability (the requirements being non-negative).
C10_BothRequirements ==
  (LookupEnded /\ fn = "cpu_and_memory") =>
    /\ rpc = "returned"
    /\ LET hosts == result[1] IN
       /\ {hosts[k] : k \in 1..Len(hosts)} =
            {fleet[i].name : i \in {j \in 1..Len(fleet) : MeetsBoth(j)}}
       /\ \A k, l \in 1..Len(hosts) :
            k < l => PlaceOf(hosts[k]) < PlaceOf(hosts[l])
       /\ \A k \in 1..Len(hosts) :
            /\ FleetAvailableCpu(PlaceOf(hosts[k])) >= 0
            /\ FleetAvailableMemory(PlaceOf(hosts[k])) >= 0

\* (4, 4) asked of a fleet with a node meeting only the cpu requirement, a
\* node meeting only the memory requirement, an overcommitted node and
\* nodes meeting both: the latter alone are returned
C10_Witness ==
  /\ rpc = "returned"
  /\ fn = "cpu_and_memory"
  /\ want = [cpu |-> 4, memory |-> 4]
  /\ Len(result[1]) >= 1
  /\ \E i \in 1..Len(fleet) :
       FleetAvailableCpu(i) >= 4 /\ FleetAvailableMemory(i) < 4
  /\ \E i \in 1..Len(fleet) :
       FleetAvailableCpu(i) < 4 /\ FleetAvailableMemory(i) >= 4

\* C11: for every node visited, the allocatable value and the usage value
\* the lookup computed its availability from were held by the store together
\* at some moment since the lookup began.
C11_OneSnapshotPerNode ==
  \A k \in 1..Len(computed) :
    LET e == computed[k] IN
    \E s \in fleetLog :
      /\ s.name = e.name
      /\ e.available_cpu # <<>> =>
           (s.cpu = e.allocatable.cpu /\ s.usage_cpu = e.usage.cpu)
      /\ e.available_memory # <<>> =>
           (s.memory = e.allocatable.memory /\ s.usage_memory = e.usage.memory)


\* ---------------------- concurrent calls of poll_for_update_resource
\* Several calls run against one document, each on a thread of its own.
\* The deadline is taken as not reached, and every GET and PUT as
\* answered with 200 or 409.

\* Call c's get_latest_resource_version and the assignment into its
\* request_json: the store answers with a readable version.
CallerRead(c) ==
  /\ cpc[c] = "read"
  /\ \E v \in ReadableVersions(mstore) :
       /\ cbody' = [cbody EXCEPT ![c] = FillVersion(@, v)]
       /\ chist' = [chist EXCEPT ![c].fresh = (v = mstore.resourceVersion),
                                 ![c].overtaken = FALSE,
                                 ![c].put = <<>>]
  /\ cpc' = [cpc EXCEPT ![c] = "put"]
  /\ UNCHANGED <<mstore, mwrites>>
  /\ UNCHANGED nonMultiVars

\* Call c's PUT and what _update_resource makes of its status; an accepted
\* PUT overtakes the reads of the other calls that have their PUT pending.
CallerPut(c) ==
  /\ cpc[c] = "put"
  /\ LET status == VersionCheck(mstore, cbody[c])
         outcome == UpdateResult(status)
         entry == [sent |-> cbody[c].resourceVersion,
                   current |-> mstore.resourceVersion,
                   status |-> status,
                   fresh |-> chist[c].fresh,
                   overtaken |-> chist[c].overtaken]
     IN /\ mstore' = IF status = 200 THEN Commit(mstore, cbody[c])
                     ELSE mstore
        /\ cpc' = [cpc EXCEPT ![c] = IF outcome = "ok" THEN "done"
                                     ELSE IF outcome = "retry" THEN "read"
                                     ELSE "failed"]
        /\ chist' = [d \in Callers |->
                       IF d = c
                       THEN [chist[c] EXCEPT !.put = <<entry>>,
                                             !.fresh = FALSE,
                                             !.overtaken = FALSE,
                                             !.conflicted =
                                                @ \/ status = 409]
                       ELSE [chist[d] EXCEPT !.overtaken =
                                @ \/ (status = 200 /\ cpc[d] = "put")]]
  /\ UNCHANGED <<cbody, mwrites>>
  /\ UNCHANGED nonMultiVars

\* A client other than the calls commits a change of y while a call runs.
OtherWrite ==
  /\ \E c \in Callers : cpc[c] \in {"read", "put"}
  /\ mwrites < MaxWrites
  /\ mwrites' = mwrites + 1
  /\ mstore' = Commit(mstore, [mstore EXCEPT !.y = "w"])
  /\ chist' = [d \in Callers |->
                 [chist[d] EXCEPT !.overtaken = @ \/ cpc[d] = "put"]]
  /\ UNCHANGED <<cpc, cbody>>
  /\ UNCHANGED nonMultiVars

\* the calls are made together
MultiCallInit ==
  /\ UpdateInit("idle", {200})
  /\ RankInit("idle", <<>>, "cpu", [cpu |-> 0, memory |-> 0])
  /\ ChurnInit({})
  /\ WaitInit("idle", "delete_image", 0)
  /\ MultiInit("read")

MultiNext ==
  \/ \E c \in Callers : CallerRead(c)
  \/ \E c \in Callers : CallerPut(c)
  \/ OtherWrite

\* Each call runs on a thread that keeps being scheduled, and a store that
\* is eventually consistent keeps answering reads with the current version
\* now and then.
MultiFairness ==
  \A c \in Callers :
    /\ WF_vars(CallerPut(c))
    /\ SF_vars(CallerRead(c) /\ chist'[c].fresh)

MultiSpec == MultiCallInit /\ [][MultiNext]_vars /\ MultiFairness

\* ------------------------------------------------ properties of the waits
\* the last answer the wait's poll observed
LastObs == whist.lastObs[1]

\* the poll of the wait is still running, or ended by its deadline
PollingOrTimedOut ==
  \/ wpc = "poll"
  \/ /\ wpc = "raised"
     /\ werr = <<TimeoutException>>
     /\ wnow >= wdeadline

\* C12: when the very first answer delete_image's poll observes is a 404 it
\* succeeds on that first iteration, after exactly one GET and with no
\* sleep; and it never succeeds after an answer that is not a 404.
C12_DeletedOn404Only ==
  wop = "delete_image" =>
    /\ (whist.firstObs # <<>> /\ whist.firstObs[1].status_code = 404) =>
         /\ wpc = "returned"
         /\ whist.nGets = 1
         /\ whist.sleeps = 0
         /\ wnow <= whist.pollStart + MaxLatency
    /\ wpc = "returned" =>
         /\ whist.started[1] \in {200, 201}
         /\ LastObs.status_code = 404

C12_Witness ==
  /\ wop = "delete_image"
  /\ wpc = "returned"
  /\ whist.nGets = 1
  /\ whist.firstObs[1].status_code = 404

\* C13: assert_vm_restarted succeeds only after an answer of 200 whose
\* document has phase Running and a uid other than previous_uid; every other
\* answer leaves it polling until its deadline.
C13_RestartedOnNewRunning ==
  wop = "assert_vm_restarted" =>
    /\ wpc = "returned" =>
         /\ LastObs.status_code = 200
         /\ LastObs.json[1].status # <<>>
         /\ LastObs.json[1].status[1].phase = <<"Running">>
         /\ LastObs.json[1].uid # PreviousUid
    /\ (whist.nGets > 0 /\ wpc # "returned") => PollingOrTimedOut
    /\ wpc = "poll" => werr = <<>>

C13_Witness ==
  /\ wop = "assert_vm_restarted"
  /\ wpc = "returned"
  /\ whist.nGets > 1
  /\ whist.firstObs[1].status_code = 200
  /\ whist.firstObs[1].json[1].uid = PreviousUid
  /\ whist.firstObs[1].json[1].status # <<>>
  /\ whist.firstObs[1].json[1].status[1].phase = <<"Running">>

\* C14: in create_image an answer of 200 whose document lacks status or
\* status.storageClassName is not an error, the wait goes on; and the
\* document returned is the one last observed, which holds
\* status.storageClassName.
C14_ActiveImageReturned ==
  wop = "create_image" =>
    /\ (/\ whist.nGets > 0
        /\ LastObs.status_code = 200
        /\ \/ LastObs.json[1].status = <<>>
           \/ LastObs.json[1].status[1].storageClassName = <<>>)
         => PollingOrTimedOut
    /\ wpc = "returned" =>
         /\ wret = LastObs.json
         /\ wret[1].status # <<>>
         /\ wret[1].status[1].storageClassName # <<>>
    /\ wpc # "returned" => wret = <<>>

C14_Witness ==
  /\ wop = "create_image"
  /\ wpc = "returned"
  /\ whist.nGets > 1
  /\ whist.firstObs[1].status_code = 200
  /\ whist.firstObs[1].json[1].status # <<>>
  /\ whist.firstObs[1].json[1].status[1].storageClassName = <<>>

\* C15: when the endpoint never answers with the expected code during a
\* readiness poll, poll_for_resource_ready fails, at or after the deadline
\* of 60 s from the poll's start and after a GET, and
\* get_latest_resource_version hands no version on: no version is read
\* for that attempt, no PUT follows and nothing is returned.
C15_ReadyTimeoutFails ==
  /\ failure = "ready_timeout" =>
       /\ pc = "failed"
       /\ now >= readyDeadline
       /\ hist.lastReq = "GET"
       /\ hist.nReads = hist.nPuts
       /\ returned = <<>>
  /\ pc = "ready" => now < readyDeadline + ReadyStep

C15_Witness ==
  /\ failure = "ready_timeout"
  /\ now >= ReadyTimeout

\* C16: every timeout of a wait reaches the caller as a failure that carries
\* the name of the resource waited on and the last answer observed.
C16_TimeoutCarriesIdentityAndState ==
  (werr # <<>> /\ werr[1].type = "TimeoutException") =>
    /\ werr[1].identity = <<ResourceName>>
    /\ werr[1].observed = whist.lastObs

\* C17: a 404 answer to a GET that waits for the resource to be present is
\* never fatal: a call that ended after a GET answered 404 ended by the
\* deadline of its readiness poll, not before.
C17_NotFoundKeepsPolling ==
  (pc = "failed" /\ hist.lastReq = "GET" /\ lookupCode = 404) =>
    /\ failure = "ready_timeout"
    /\ now >= readyDeadline

\* The loop of a most-available lookup over a listing, from node i on with
\* the accumulator a: the outcome after the last node, or at the first
\* AttributeError.
RECURSIVE RankFold(_, _, _, _)
RankFold(listing, which, i, a) ==
  IF i > Len(listing)
  THEN [nodes |-> a.nodes, most |-> a.most, error |-> ""]
  ELSE LET node == listing[i]
           metrics == [cpu |-> node.usage_cpu, memory |-> node.usage_memory]
           available == IF which = "cpu" THEN AvailableCpu(node, metrics)
                        ELSE AvailableMemory(node, metrics)
           step == MostAvailable(a, node.name, available)
       IN IF step.error # ""
          THEN step
          ELSE RankFold(listing, which, i + 1,
                        [nodes |-> step.nodes, most |-> step.most])

\* the orders a listing of n nodes may come in
Orderings(n) ==
  {p \in [1..n -> 1..n] : \A i, j \in 1..n : p[i] = p[j] => i = j}

\* the names in most_available_*_nodes: none while it is None
NameSet(hosts) ==
  IF hosts = <<>> THEN {} ELSE {hosts[1][k] : k \in 1..Len(hosts[1])}

\* C18: for every order the same nodes could have been listed in, the
\* most-available lookup ends as this run did: it returns the same set of
\* names and the same maximum, and fails in none.
C18_OrderIndependent ==
  (LookupEnded /\ fn \in {"cpu", "memory"}) =>
    \A p \in Orderings(Len(fleet)) :
      LET other == RankFold([i \in 1..Len(fleet) |-> fleet[p[i]]], fn, 1,
                            [nodes |-> <<>>, most |-> 0])
      IN /\ other.error = ""
         /\ rpc = "returned"
         /\ NameSet(other.nodes) = NameSet(result[1].hosts)
         /\ other.most = result[1].most

\* the request_json the caller passed to poll_for_update_resource
CallerBody == [resourceVersion |-> 1, x |-> "x1", y |-> "y0"]

\* C19: over all attempts of a call the body differs from the caller's
\* request_json in resourceVersion only, and every PUT sent the caller's
\* body with just that field replaced by the version read; no other field
\* of the store's document gets into it.
C19_OnlyVersionChanges ==
  /\ request_json =
       [CallerBody EXCEPT !.resourceVersion = request_json.resourceVersion]
  /\ hist.lastPut # <<>> =>
       hist.lastPut[1].sent =
         [CallerBody EXCEPT !.resourceVersion = hist.lastPut[1].read[1].version]

\* a PUT of a second attempt, sent after another client changed y in the
\* store, that still carried the caller's y
C19_Witness ==
  /\ hist.lastPut # <<>>
  /\ hist.lastPut[1].attempt = 2
  /\ hist.writerY # <<>>
  /\ hist.lastPut[1].sent.y = "y0"
  /\ hist.lastPut[1].sent.resourceVersion # CallerBody.resourceVersion

\* C20 as stated: a call is answered 409 only if another writer's PUT was
\* accepted after that call's read.
C20_ConflictOnlyAfterOtherWrite ==
  \A c \in Callers :
    (chist[c].put # <<>> /\ chist[c].put[1].status = 409) =>
      chist[c].put[1].overtaken

\* what holds of every PUT of the concurrent calls
C20_Safe ==
  \A c \in Callers :
    LET h == chist[c] IN
    /\ (h.put # <<>> /\ h.put[1].status = 409) =>
         (h.put[1].overtaken \/ ~h.put[1].fresh)
    /\ (h.put # <<>> /\ h.put[1].status = 200) =>
         h.put[1].sent = h.put[1].current
    /\ cpc[c] = "done" <=> (h.put # <<>> /\ h.put[1].status = 200)
    /\ cpc[c] = "read" => (h.put = <<>> \/ h.put[1].status = 409)
    /\ cpc[c] # "failed"

\* C20: concurrent calls make progress without locks. A call is answered
\* 409 only if the version it read was not the store's when its PUT
\* arrived: another writer's PUT was accepted after the read, or the read
\* was stale. Each accepted PUT carried the version then current in the
\* store. With finitely many competing writes, reads that keep returning
\* the current version now and then, and no deadline reached, every call
\* eventually has a PUT accepted.
C20_ProgressWithoutLocks ==
  /\ []C20_Safe
  /\ \A c \in Callers : <>(cpc[c] = "done")

\* every call is done, and one of them was answered 409 on the way because
\* another writer's PUT was accepted after its read
C20_Witness ==
  /\ \A c \in Callers : cpc[c] = "done"
  /\ \E c \in Callers : chist[c].conflicted
  /\ mstore.resourceVersion >= 1 + MaxCallers

=============================================================================
